---- MODULE Spec2Model ----
(***************************************************************************)
(* The classification cache and orchestrator (RAGProcessor) of the NHP     *)
(* analyzer backend, with the request threads of app.py that drive it.     *)
(*                                                                         *)
(* One RAGProcessor object is shared by every thread of the process        *)
(* (app.py:29).  A thread runs one operation at a time: classify_ingredient*)
(* (from analyze_product), reset_knowledge_base (from reset_database) or   *)
(* build_knowledge_base (from the upload background thread).  Each         *)
(* operation is cut into steps at the places where it calls an external    *)
(* service or touches the file system, which is where another thread can   *)
(* run in between.                                                         *)
(*                                                                         *)
(* Confidence is kept in hundredths: 95 is 0.95, 10 is 0.1.                *)
(***************************************************************************)
EXTENDS Integers, FiniteSets, Sequences

VARIABLES
    gemini_model,   \* TRUE iff self.gemini_model is not None
    cache,          \* self.cache: ingredient name -> classification result
    file,           \* the file at self.cache_path
    collExists,     \* the collection "nhp_monographs" exists in the store
    collDocs,       \* number of chunks held by the collection
    pc,             \* per thread: where it stands in its operation
    call,           \* per thread: the operation in progress or last completed
    found,          \* per thread: similar_docs of this call (number of documents)
    resp,           \* per thread: what the language model answered in this call
    result,         \* per thread: the local variable result (line 96)
    ret,            \* per thread: what the last completed operation returned
                    \* or raised, with what it logged on the way
    aliased,        \* the threads whose local result is the very dict that
                    \* self.cache holds under their name (line 100 stores the
                    \* object, not a copy)
    qfail,          \* the threads whose retrieval query raised in this call
    stale,          \* the threads whose classification stood before its
                    \* store (line 100) when a reset returned
    ops,            \* number of operations started so far
    stage,          \* PDFProcessor: where the extraction of a document stands
    product_text,   \* the text of the document (app.py:110)
    cleaned,        \* number of times _clean_text has been applied to it
    title_pattern,  \* the title pattern the loop of line 120 tries next
    medicinal,      \* the local variable medicinal (line 114)
    non_medicinal,  \* the local variable non_medicinal (line 115)
    ingredients,    \* the local variable ingredients
    unique_ingredients, \* what extract_ingredients returns
    evaluated       \* the strategies this extraction has evaluated

\* the state of the RAGProcessor and of the threads that use it
ragvars == <<gemini_model, cache, file, collExists, collDocs,
             pc, call, found, resp, result, ret, aliased, qfail, stale, ops>>

\* the state of an extraction by the PDFProcessor, which shares nothing with
\* the RAGProcessor
pdfvars == <<stage, product_text, cleaned, title_pattern, medicinal, non_medicinal,
             ingredients, unique_ingredients, evaluated>>

vars == <<gemini_model, cache, file, collExists, collDocs,
          pc, call, found, resp, result, ret, aliased, qfail, stale, ops,
          stage, product_text, cleaned, title_pattern, medicinal, non_medicinal,
          ingredients, unique_ingredients, evaluated>>

-----------------------------------------------------------------------------
(* Bounds of the model *)

\* Number of chunks the processed texts of a rebuild give, when they give
\* any.
MaxChunks == 1

\* Number of operations (classifications, resets, rebuilds) the threads
\* start in one run.
MaxOps == 3

Threads == {"t1", "t2"}
Names == {"Vitamin C", "Zinc"}
Types == {"medicinal", "non_medicinal", "unknown"}

\* n_results of search_similar_documents
NResults == 3

-----------------------------------------------------------------------------
(* Values *)

EmptyCache == <<>>

\* The JSON objects the language model may answer with.  The second is a
\* well-formed object whose class and confidence are out of range.
LLMObjects ==
    { [class |-> 1, classification_text |-> "Class 1",
       reasoning |-> "supported", confidence |-> 90],
      [class |-> 7, classification_text |-> "Class 7",
       reasoning |-> "unsure", confidence |-> 150] }

\* The texts of response.text: a JSON text, bare or inside a ```json fence.
\* A JSON text is an object, an array, or no JSON at all.
JsonTexts ==
    { [kind |-> "object", value |-> o] : o \in LLMObjects }
    \cup { [kind |-> "array"], [kind |-> "garbage"] }

ResponseTexts == [fenced : BOOLEAN, body : JsonTexts]

\* generate_content either raises or yields a response.
LLMOutcomes ==
    { [raises |-> TRUE] }
    \cup { [raises |-> FALSE, text |-> x] : x \in ResponseTexts }

NoResp == [raises |-> FALSE, none |-> TRUE]
NoResult == [none |-> TRUE]

\* What an operation gave its caller: nothing yet, a value, or an exception.
\* log is what the operation wrote to the logger on its way: "cache" (line
\* 47), "unavailable" (line 63), the exception of line 105 or 154, or "".
RetNone == [kind |-> "none"]
RetValue(v, log) == [kind |-> "value", val |-> v, log |-> log]
RetRaised(e, log) == [kind |-> "raised", exc |-> e, log |-> log]

\* The fields of a result other than monograph_found: the verdict.
Verdict(r) == [f \in (DOMAIN r) \ {"monograph_found"} |-> r[f]]

\* d[name] = value
SetItem(d, name, value) ==
    [m \in (DOMAIN d) \cup {name} |-> IF m = name THEN value ELSE d[m]]

-----------------------------------------------------------------------------
(* Pure pieces of RAGProcessor *)

\* line 55: the fixed result of the non-medicinal shortcut
NonMedicinalResult ==
    [classification_text |-> "Non-medicinal", confidence |-> 95,
     reasoning |-> "Identified as a non-medicinal excipient.",
     monograph_found |-> FALSE]

\* _fallback_classification
Fallback(name, monograph_found) ==
    [class |-> 3, classification_text |-> "Class 3 (Fallback)",
     reasoning |-> <<"Gemini AI analysis failed", name>>,
     confidence |-> 10, monograph_found |-> monograph_found]

\* line 46: name in self.cache
InCache(name) == name \in DOMAIN cache

GeminiAvailableMutAlways == TRUE

\* line 62: self.gemini_model is usable
GeminiAvailable == gemini_model

\* line 133: collection.query raises when the collection self.collection
\* names has been deleted
QueryRaises == ~collExists

\* search_similar_documents: the documents the query returns (their number);
\* a query on a collection that does not exist raises, which is caught and
\* gives the empty list.
SearchSimilarDocuments ==
    IF QueryRaises THEN 0
    ELSE IF collDocs < NResults THEN collDocs ELSE NResults

\* line 95: the regular expression finds a fenced block holding {...};
\* the text handed to json.loads is the block's inside, or the whole text.
\* A fence around something that has no braces does not match.
FenceMatches(text) == text.fenced /\ text.body.kind \in {"object", "garbage"}

\* line 96: json.loads.  With no match the whole text is parsed, and a text
\* that still carries its fence is not JSON.
JsonLoads(text) ==
    IF text.fenced /\ ~FenceMatches(text)
        THEN [ok |-> FALSE, exc |-> "JSONDecodeError"]
    ELSE IF text.body.kind = "garbage"
        THEN [ok |-> FALSE, exc |-> "JSONDecodeError"]
    ELSE IF text.body.kind = "array"
        THEN [ok |-> TRUE, isDict |-> FALSE]
    ELSE [ok |-> TRUE, isDict |-> TRUE, value |-> text.body.value]

\* lines 96-98: parse, then result['monograph_found'] = monograph_found,
\* which raises TypeError on a value that is not a dict.
ParseAndAttach(text, monograph_found) ==
    LET j == JsonLoads(text) IN
    IF ~j.ok THEN j
    ELSE IF ~j.isDict THEN [ok |-> FALSE, exc |-> "TypeError"]
    ELSE [ok |-> TRUE,
          value |-> [f \in (DOMAIN j.value) \cup {"monograph_found"} |->
                        IF f = "monograph_found" THEN monograph_found
                        ELSE j.value[f]]]

CaughtMutNarrow(exc) == exc = "JSONDecodeError"

\* line 104: except Exception catches every exception raised in the try block
Caught(exc) == TRUE

MergeFlagMutOverwrite(entry, monograph_found) ==
    [class |-> 3, classification_text |-> "Class 3 (Fallback)",
     reasoning |-> "refreshed", confidence |-> 10,
     monograph_found |-> monograph_found]

\* line 51: cached_result['monograph_found'] = bool(similar_docs)
MergeFlag(entry, monograph_found) ==
    [f \in (DOMAIN entry) \cup {"monograph_found"} |->
        IF f = "monograph_found" THEN monograph_found ELSE entry[f]]

\* _load_cache: the mapping the file holds; a missing file gives {}.
FileAbsent == [state |-> "absent", data |-> EmptyCache]
FileValid(d) == [state |-> "valid", data |-> d]
\* open(path, 'w') has truncated the file and json.dump has not completed:
\* the file is empty or holds a prefix of the JSON text.
FilePartial == [state |-> "partial", data |-> EmptyCache]

-----------------------------------------------------------------------------
(* Init: the state after RAGProcessor() *)

\* What earlier runs may have left in the cache file.
InitFiles ==
    { FileAbsent,
      FileValid(SetItem(EmptyCache, "Vitamin C",
                [class |-> 1, classification_text |-> "Class 1",
                 reasoning |-> "supported", confidence |-> 90,
                 monograph_found |-> TRUE])) }

\* No document is being extracted.
PdfOff ==
    /\ stage = "none"
    /\ product_text = <<>>
    /\ cleaned = 0
    /\ title_pattern = 1
    /\ medicinal = <<>>
    /\ non_medicinal = <<>>
    /\ ingredients = <<>>
    /\ unique_ingredients = <<>>
    /\ evaluated = {}

Init ==
    /\ PdfOff
    /\ gemini_model \in BOOLEAN
    /\ file \in InitFiles
    /\ cache = file.data
    /\ collExists = TRUE
    /\ collDocs \in {0, MaxChunks}
    /\ pc = [t \in Threads |-> "idle"]
    /\ call = [t \in Threads |-> [op |-> "none"]]
    /\ found = [t \in Threads |-> 0]
    /\ resp = [t \in Threads |-> NoResp]
    /\ result = [t \in Threads |-> NoResult]
    /\ ret = [t \in Threads |-> RetNone]
    /\ aliased = {}
    /\ qfail = {}
    /\ stale = {}
    /\ ops = 0

-----------------------------------------------------------------------------
(* classify_ingredient *)

\* The thread's locals when it is in no operation.
Locals(t) ==
    /\ found' = [found EXCEPT ![t] = 0]
    /\ resp' = [resp EXCEPT ![t] = NoResp]
    /\ result' = [result EXCEPT ![t] = NoResult]
    /\ aliased' = aliased \ {t}
    /\ qfail' = qfail \ {t}

\* The classifications that missed the cache, have their verdict from the
\* language model and stand before line 100.
AboutToStore == {u \in Threads : call[u].op = "classify" /\ pc[u] = "store"}

\* The operation of thread t ends and gives r to its caller; r is the None
\* of a reset (kind "ok") when line 152 has completed.
Return(t, r) ==
    /\ pc' = [pc EXCEPT ![t] = "idle"]
    /\ ret' = [ret EXCEPT ![t] = r]
    /\ Locals(t)
    /\ stale' = IF r.kind = "ok" THEN (stale \cup AboutToStore) \ {t} ELSE stale \ {t}

\* lines 104-106: what classify_ingredient returns when exc is raised inside
\* its try block
OnException(name, monograph_found, exc) ==
    IF Caught(exc) THEN RetValue(Fallback(name, monograph_found), exc)
    ELSE RetRaised(exc, "")

\* lines 44-55: the cache test, then the non-medicinal shortcut
ClassifyBegin(t, name, type) ==
    /\ pc[t] = "idle"
    /\ ops < MaxOps
    /\ ops' = ops + 1
    /\ call' = [call EXCEPT ![t] = [op |-> "classify", name |-> name, type |-> type]]
    /\ IF InCache(name)
         THEN /\ pc' = [pc EXCEPT ![t] = "hit_search"]
              /\ ret' = [ret EXCEPT ![t] = RetNone]
              /\ Locals(t)
              /\ UNCHANGED stale
         ELSE IF type = "non_medicinal"
         THEN Return(t, RetValue(NonMedicinalResult, ""))
         ELSE /\ pc' = [pc EXCEPT ![t] = "miss_search"]
              /\ ret' = [ret EXCEPT ![t] = RetNone]
              /\ Locals(t)
              /\ UNCHANGED stale
    /\ UNCHANGED <<pdfvars, gemini_model, cache, file, collExists, collDocs>>

\* line 49: the fresh retrieval of a cache hit
HitSearch(t) ==
    /\ pc[t] = "hit_search"
    /\ found' = [found EXCEPT ![t] = SearchSimilarDocuments]
    /\ qfail' = IF QueryRaises THEN qfail \cup {t} ELSE qfail
    /\ pc' = [pc EXCEPT ![t] = "hit_read"]
    /\ UNCHANGED <<pdfvars, gemini_model, cache, file, collExists, collDocs,
                   call, resp, result, ret, aliased, stale, ops>>

\* lines 50-52: self.cache[name] raises KeyError when the entry has gone;
\* otherwise the entry itself gets the fresh flag and is returned.  The
\* entry is a dict that a classification still writing the file may hold as
\* its result: that thread sees the new flag too.
HitReturn(t) ==
    /\ pc[t] = "hit_read"
    /\ LET name == call[t].name IN
       IF name \in DOMAIN cache
         THEN /\ cache' = SetItem(cache, name, MergeFlag(cache[name], found[t] > 0))
              /\ pc' = [pc EXCEPT ![t] = "idle"]
              /\ ret' = [ret EXCEPT ![t] = RetValue(cache'[name], "cache")]
              /\ found' = [found EXCEPT ![t] = 0]
              /\ resp' = [resp EXCEPT ![t] = NoResp]
              /\ result' = [u \in Threads |->
                               IF u = t THEN NoResult
                               ELSE IF u \in aliased /\ call[u].name = name
                                 THEN MergeFlag(result[u], found[t] > 0)
                                 ELSE result[u]]
              /\ aliased' = aliased \ {t}
              /\ qfail' = qfail \ {t}
              /\ stale' = stale \ {t}
         ELSE /\ Return(t, RetRaised("KeyError", "cache"))
              /\ UNCHANGED cache
    /\ UNCHANGED <<pdfvars, gemini_model, file, collExists, collDocs, call, ops>>

\* lines 58-64: retrieval of a cache miss, and the fallback of a processor
\* that has no language model
MissSearch(t) ==
    /\ pc[t] = "miss_search"
    /\ LET docs == SearchSimilarDocuments IN
       IF ~GeminiAvailable
         THEN Return(t, RetValue(Fallback(call[t].name, docs > 0), "unavailable"))
         ELSE /\ found' = [found EXCEPT ![t] = docs]
              /\ pc' = [pc EXCEPT ![t] = "llm_call"]
              /\ qfail' = IF QueryRaises THEN qfail \cup {t} ELSE qfail
              /\ UNCHANGED <<ret, resp, result, aliased, stale>>
    /\ UNCHANGED <<pdfvars, gemini_model, cache, file, collExists, collDocs, call, ops>>

\* line 94: generate_content raises or answers
LLMCall(t) ==
    /\ pc[t] = "llm_call"
    /\ \E outcome \in LLMOutcomes : resp' = [resp EXCEPT ![t] = outcome]
    /\ pc' = [pc EXCEPT ![t] = "llm_parse"]
    /\ UNCHANGED <<pdfvars, gemini_model, cache, file, collExists, collDocs,
                   call, found, result, ret, aliased, qfail, stale, ops>>

\* lines 95-98 and 104-106: the parse of the answer; any exception of the
\* call or of the parse goes to the except clause
LLMParse(t) ==
    /\ pc[t] = "llm_parse"
    /\ LET name == call[t].name
           mf == found[t] > 0
           parsed == IF resp[t].raises
                       THEN [ok |-> FALSE, exc |-> "ServiceError"]
                       ELSE ParseAndAttach(resp[t].text, mf)
       IN IF parsed.ok
            THEN /\ result' = [result EXCEPT ![t] = parsed.value]
                 /\ resp' = [resp EXCEPT ![t] = NoResp]
                 /\ pc' = [pc EXCEPT ![t] = "store"]
                 /\ UNCHANGED <<ret, found, aliased, qfail, stale>>
            ELSE Return(t, OnException(name, mf, parsed.exc))
    /\ UNCHANGED <<pdfvars, gemini_model, cache, file, collExists, collDocs, call, ops>>

StoreMutFirstWins(t) ==
    /\ pc[t] = "store"
    /\ cache' = IF call[t].name \in DOMAIN cache THEN cache
                ELSE SetItem(cache, call[t].name, result[t])
    /\ aliased' = IF call[t].name \in DOMAIN cache THEN aliased ELSE aliased \cup {t}
    /\ stale' = stale \ {t}
    /\ pc' = [pc EXCEPT ![t] = "save_open"]
    /\ UNCHANGED <<pdfvars, gemini_model, file, collExists, collDocs,
                   call, found, resp, result, ret, qfail, ops>>

\* line 100: self.cache[name] = result.  The cache now holds this thread's
\* dict under the name, and no longer the dict of an earlier store.
Store(t) ==
    /\ pc[t] = "store"
    /\ cache' = SetItem(cache, call[t].name, result[t])
    /\ aliased' = {u \in aliased : call[u].name # call[t].name} \cup {t}
    /\ stale' = stale \ {t}
    /\ pc' = [pc EXCEPT ![t] = "save_open"]
    /\ UNCHANGED <<pdfvars, gemini_model, file, collExists, collDocs,
                   call, found, resp, result, ret, qfail, ops>>

-----------------------------------------------------------------------------
(* _save_cache, called by classify_ingredient (line 101) and by            *)
(* reset_knowledge_base (line 152)                                         *)

\* What the caller of _save_cache gives its own caller when the write raises
\* OSError: classify_ingredient handles it in its except clause,
\* reset_knowledge_base logs it and raises it again (lines 153-155).
SaveFailed(t) ==
    IF call[t].op = "classify"
      THEN OnException(call[t].name, found[t] > 0, "OSError")
      ELSE RetRaised("OSError", "OSError")

\* What the caller gives its own caller after _save_cache has returned:
\* classify_ingredient its result (line 102), reset_knowledge_base None.
SaveDone(t) ==
    IF call[t].op = "classify" THEN RetValue(result[t], "")
    ELSE [kind |-> "ok", log |-> ""]

\* line 40, open(self.cache_path, 'w'): truncates the file, or raises
SaveOpen(t) ==
    /\ pc[t] = "save_open"
    /\ \E ok \in BOOLEAN :
         IF ok
           THEN /\ file' = FilePartial
                /\ pc' = [pc EXCEPT ![t] = "save_dump"]
                /\ UNCHANGED <<ret, found, resp, result, aliased, qfail, stale>>
           ELSE /\ Return(t, SaveFailed(t))
                /\ UNCHANGED file
    /\ UNCHANGED <<pdfvars, gemini_model, cache, collExists, collDocs, call, ops>>

\* line 40, json.dump(self.cache, f) and the close of the file: the file
\* holds the mapping self.cache has now, or the write raises and leaves
\* what it had written.
SaveDump(t) ==
    /\ pc[t] = "save_dump"
    /\ \E ok \in BOOLEAN :
         IF ok
           THEN /\ file' = FileValid(cache)
                /\ Return(t, SaveDone(t))
           ELSE /\ file' = FilePartial
                /\ Return(t, SaveFailed(t))
    /\ UNCHANGED <<pdfvars, gemini_model, cache, collExists, collDocs, call, ops>>

-----------------------------------------------------------------------------
(* reset_knowledge_base *)

\* A thread starts an operation that is not a classification.
StartOp(t, op) ==
    /\ pc[t] = "idle"
    /\ ops < MaxOps
    /\ ops' = ops + 1
    /\ call' = [call EXCEPT ![t] = [op |-> op]]

\* line 149: delete_collection raises when there is no such collection
ResetDelete(t) ==
    /\ StartOp(t, "reset")
    /\ IF collExists
         THEN /\ collExists' = FALSE
              /\ collDocs' = 0
              /\ pc' = [pc EXCEPT ![t] = "reset_create"]
              /\ ret' = [ret EXCEPT ![t] = RetNone]
              /\ Locals(t)
              /\ UNCHANGED stale
         ELSE /\ Return(t, RetRaised("ValueError", "ValueError"))
              /\ UNCHANGED <<collExists, collDocs>>
    /\ UNCHANGED <<pdfvars, gemini_model, cache, file>>

\* line 150: create_collection, and self.collection is the new collection
ResetCreate(t) ==
    /\ pc[t] = "reset_create"
    /\ IF collExists
         THEN /\ Return(t, RetRaised("ValueError", "ValueError"))
              /\ UNCHANGED <<collExists, collDocs>>
         ELSE /\ collExists' = TRUE
              /\ collDocs' = 0
              /\ pc' = [pc EXCEPT ![t] = "reset_clear"]
              /\ UNCHANGED <<ret, found, resp, result, aliased, qfail, stale>>
    /\ UNCHANGED <<pdfvars, gemini_model, cache, file, call, ops>>

\* line 151: self.cache = {}, a new dict that holds no thread's result
ResetClear(t) ==
    /\ pc[t] = "reset_clear"
    /\ cache' = EmptyCache
    /\ aliased' = {}
    /\ pc' = [pc EXCEPT ![t] = "save_open"]
    /\ UNCHANGED <<pdfvars, gemini_model, file, collExists, collDocs,
                   call, found, resp, result, ret, qfail, stale, ops>>

-----------------------------------------------------------------------------
(* build_knowledge_base, run by the background thread of an upload         *)

RetBool(b) == [kind |-> "bool", val |-> b, log |-> ""]

\* line 111: delete_collection; an exception makes the build return False
BuildDelete(t) ==
    /\ StartOp(t, "build")
    /\ IF collExists
         THEN /\ collExists' = FALSE
              /\ collDocs' = 0
              /\ pc' = [pc EXCEPT ![t] = "build_create"]
              /\ ret' = [ret EXCEPT ![t] = RetNone]
              /\ Locals(t)
              /\ UNCHANGED stale
         ELSE /\ Return(t, RetBool(FALSE))
              /\ UNCHANGED <<collExists, collDocs>>
    /\ UNCHANGED <<pdfvars, gemini_model, cache, file>>

\* line 112: create_collection
BuildCreate(t) ==
    /\ pc[t] = "build_create"
    /\ IF collExists
         THEN /\ Return(t, RetBool(FALSE))
              /\ UNCHANGED <<collExists, collDocs>>
         ELSE /\ collExists' = TRUE
              /\ collDocs' = 0
              /\ pc' = [pc EXCEPT ![t] = "build_add"]
              /\ UNCHANGED <<ret, found, resp, result, aliased, qfail, stale>>
    /\ UNCHANGED <<pdfvars, gemini_model, cache, file, call, ops>>

\* lines 113-125: the chunks of the processed texts are embedded and added;
\* with no chunk the collection stays as created (line 121); adding to a
\* collection that has been deleted meanwhile raises (line 126).
BuildAdd(t) ==
    /\ pc[t] = "build_add"
    /\ \E chunks \in {0, MaxChunks} :
         IF chunks = 0
           THEN /\ Return(t, RetBool(TRUE))
                /\ UNCHANGED collDocs
         ELSE IF collExists
           THEN /\ collDocs' = chunks
                /\ Return(t, RetBool(TRUE))
           ELSE /\ Return(t, RetBool(FALSE))
                /\ UNCHANGED collDocs
    /\ UNCHANGED <<pdfvars, gemini_model, cache, file, collExists, call, ops>>

-----------------------------------------------------------------------------

Next ==
    \E t \in Threads :
        \/ \E name \in Names, type \in Types : ClassifyBegin(t, name, type)
        \/ HitSearch(t)
        \/ HitReturn(t)
        \/ MissSearch(t)
        \/ LLMCall(t)
        \/ LLMParse(t)
        \/ Store(t)
        \/ SaveOpen(t)
        \/ SaveDump(t)
        \/ ResetDelete(t)
        \/ ResetCreate(t)
        \/ ResetClear(t)
        \/ BuildDelete(t)
        \/ BuildCreate(t)
        \/ BuildAdd(t)

Spec == Init /\ [][Next]_vars

-----------------------------------------------------------------------------
(* Steps, as seen from a pair of states *)

\* Thread t is between the drop of the collection by its rebuild and the
\* end of the rebuild.
Building(t) == pc[t] \in {"build_create", "build_add"}

\* Thread t takes the step that ends its operation.
Returns(t) == pc[t] # "idle" /\ pc'[t] = "idle"

\* Thread t's write of the cache file raises in this step: open raises (the
\* thread leaves save_open without reaching the dump), or the dump raises
\* and leaves a partial file.
WriteFails(t) ==
    \/ pc[t] = "save_open" /\ pc'[t] = "idle"
    \/ pc[t] = "save_dump" /\ pc'[t] = "idle" /\ file'.state = "partial"

\* class within {1,2,3} and confidence within [0,1]
InRange(r) ==
    /\ "class" \in DOMAIN r
    /\ r.class \in {1, 2, 3}
    /\ r.confidence \in 0..100

\* The fallback verdict: class 3, confidence 0.1, the given flag.
IsFallback(r, monograph_found) ==
    /\ "class" \in DOMAIN r
    /\ r.class = 3
    /\ r.confidence = 10
    /\ r.monograph_found = monograph_found

\* Retrieval would return at least one document now.
RetrievalFinds == collExists /\ collDocs > 0

-----------------------------------------------------------------------------
(* C1 *)

\* C1: a classification of a non_medicinal ingredient returns the fixed
\* Non-medicinal result at once, in every cache state: the call never
\* stands in a retrieval, language-model or cache-read step, and what it
\* returned is the fixed result.
C1_NonMedicinalShortcut ==
    \A t \in Threads :
        (call[t].op = "classify" /\ call[t].type = "non_medicinal")
            => /\ pc[t] = "idle"
               /\ ret[t] = RetValue(NonMedicinalResult, "")

-----------------------------------------------------------------------------
(* C2 *)

\* C2: when the write of the cache file fails inside classify_ingredient,
\* the call raises to its caller instead of returning a result.
C2_WriteFailureSurfaced ==
    [][\A t \in Threads :
          (call[t].op = "classify" /\ WriteFails(t)) => ret'[t].kind = "raised"]_vars

-----------------------------------------------------------------------------
(* C3 *)

\* The entry of name n keeps its verdict in this step.
KeepsVerdict(n) ==
    /\ n \in DOMAIN cache'
    /\ Verdict(cache'[n]) = Verdict(cache[n])

\* The step is line 151 of a reset.
IsResetClear ==
    \E t \in Threads :
        call[t].op = "reset" /\ pc[t] = "reset_clear" /\ pc'[t] = "save_open"

\* The step is line 100 of a classification of n that missed the cache.
IsStoreOf(n) ==
    \E t \in Threads :
        /\ pc[t] = "store" /\ pc'[t] = "save_open"
        /\ call[t].name = n
        /\ cache'[n] = result[t]

-----------------------------------------------------------------------------
(* C4 *)

\* The cache is empty in memory and in the file.
CacheCleared ==
    /\ cache = EmptyCache
    /\ file.state # "partial"
    /\ file.data = EmptyCache

\* C4: a reset that returns normally leaves retrieval without documents and
\* the cache empty in memory and in the file; a reset that raises part-way
\* has cleared both the collection and the cache, or neither.
C4_ResetAsOneUnit ==
    [][\A t \in Threads :
          (call[t].op = "reset" /\ Returns(t)) =>
              IF ret'[t].kind = "ok"
                THEN (~RetrievalFinds)' /\ CacheCleared'
                ELSE (~RetrievalFinds)' <=> CacheCleared']_vars

-----------------------------------------------------------------------------
(* C5 *)

\* Thread u runs a retrieval query in this step.
Queries(u) == pc[u] \in {"hit_search", "miss_search"} /\ pc'[u] # pc[u]

\* Thread u takes a step of a rebuild or of a reset in this step.
RebuildsOrResets(u) ==
    /\ call'[u].op \in {"build", "reset"}
    /\ pc'[u] # pc[u] \/ ops' # ops
    /\ pc[u] \notin {"save_open", "save_dump"}

\* C5: while a rebuild is between its drop of the collection and the end of
\* its re-population, no other thread queries the collection or takes a step
\* of a rebuild or reset (so at most one rebuild is in progress).
C5_RebuildExclusive ==
    [][\A t, u \in Threads :
          (t # u /\ Building(t)) => ~Queries(u) /\ ~RebuildsOrResets(u)]_vars

-----------------------------------------------------------------------------
(* C6 *)

\* C6: the write of the cache file is atomic.  A crash stops the process and
\* leaves the file as it is, so the claim is that at every point of a write
\* the file holds a complete mapping, the one before the write or the new one.
C6_AtomicCacheWrite ==
    \A t \in Threads :
        pc[t] = "save_dump" => file.state \in {"absent", "valid"}

-----------------------------------------------------------------------------
(* C7 *)

\* C7: a classification that found the name in the cache returns the stored
\* verdict with the flag of its own retrieval.  (That it calls no language
\* model is the shape of the hit path: hit_search, hit_read, return.)
C7_CacheHitReturnsStored ==
    [][\A t \in Threads :
          (pc[t] = "hit_read" /\ Returns(t)) =>
              /\ ret'[t].kind = "value"
              /\ call[t].name \in DOMAIN cache
              /\ Verdict(ret'[t].val) = Verdict(cache[call[t].name])
              /\ ret'[t].val.monograph_found = (found[t] > 0)]_vars

-----------------------------------------------------------------------------
(* C8 *)

\* C8: with no language model configured, no thread ever stands in a
\* language-model step; a medicinal classification of a name that is not in
\* the cache goes to retrieval and returns class 3, confidence 0.1 and the
\* flag of that retrieval.
C8_UnconfiguredFallback ==
    [][~gemini_model =>
         \A t \in Threads :
            /\ pc'[t] \notin {"llm_call", "llm_parse", "store"}
            /\ ( /\ pc[t] = "idle" /\ pc'[t] # "idle"
                 /\ call'[t].op = "classify" /\ call'[t].type = "medicinal"
                 /\ call'[t].name \notin DOMAIN cache )
               => pc'[t] = "miss_search"
            /\ ( pc[t] = "miss_search" /\ call[t].type = "medicinal" )
               => /\ pc'[t] \in {"miss_search", "idle"}
                  /\ Returns(t) =>
                        /\ ret'[t].kind = "value"
                        /\ IsFallback(ret'[t].val, RetrievalFinds)]_vars

\* An unconfigured processor has returned the fallback verdict for a
\* medicinal ingredient, with documents found.
C8_Witness ==
    /\ ~gemini_model
    /\ \E t \in Threads :
          /\ pc[t] = "idle" /\ call[t].op = "classify"
          /\ call[t].type = "medicinal"
          /\ ret[t].kind = "value" /\ ret[t].log = "unavailable"
          /\ IsFallback(ret[t].val, TRUE)

-----------------------------------------------------------------------------
(* C9 *)

\* The language model raised, or its answer is no JSON object, bare or
\* fenced.
BadAnswer(r) == r.raises \/ r.text.body.kind # "object"

\* C9: when the language model raises or its answer is no JSON object, the
\* classification returns the fallback verdict (class 3, confidence 0.1,
\* the flag of this call's retrieval) and raises nothing.
C9_LLMFailureFallsBack ==
    [][\A t \in Threads :
          (pc[t] = "llm_parse" /\ pc'[t] # "llm_parse" /\ BadAnswer(resp[t])) =>
              /\ pc'[t] = "idle"
              /\ ret'[t].kind = "value"
              /\ IsFallback(ret'[t].val, found[t] > 0)]_vars

\* A classification ended in the fallback verdict after an answer that was
\* a JSON array (the failure that is not a parse error).
C9_Witness ==
    \E t \in Threads :
        /\ pc[t] = "idle" /\ call[t].op = "classify"
        /\ ret[t].kind = "value" /\ ret[t].log = "TypeError"
        /\ IsFallback(ret[t].val, ret[t].val.monograph_found)

-----------------------------------------------------------------------------
(* C10 *)

\* C10: every result stored in the cache, and every result returned for a
\* medicinal ingredient, has its class in {1,2,3} and its confidence in
\* [0,1].
C10_ResultsInRange ==
    /\ \A n \in DOMAIN cache : InRange(cache[n])
    /\ \A t \in Threads :
          ( /\ pc[t] = "idle" /\ call[t].op = "classify"
            /\ call[t].type = "medicinal" /\ ret[t].kind = "value" )
          => InRange(ret[t].val)

-----------------------------------------------------------------------------
(* C11 *)

\* Thread t runs its retrieval query in this step and the query raises.
QueryFails(t) == Queries(t) /\ QueryRaises

\* C11: a retrieval query that raises is not raised out of
\* classify_ingredient: the call goes on with no documents, and the result
\* it returns has monograph_found = false.
C11_RetrievalFailureDegrades ==
    [][\A t \in Threads :
          /\ QueryFails(t) =>
                /\ ~(pc'[t] = "idle" /\ ret'[t].kind = "raised")
                /\ pc'[t] # "idle" => found'[t] = 0
                /\ (pc'[t] = "idle" /\ ret'[t].kind = "value")
                      => ret'[t].val.monograph_found = FALSE
          /\ (t \in qfail /\ Returns(t) /\ ret'[t].kind = "value")
                => ret'[t].val.monograph_found = FALSE]_vars

-----------------------------------------------------------------------------
(* pdf_processor.py: text is a sequence of characters, each a string of    *)
(* one character; the typographic characters are named by their code point *)

NL == "\n"
EnDash == "u2013"
RightQuote == "u2019"
LeftDoubleQuote == "u201c"
RightDoubleQuote == "u201d"

UpperCase ==
    <<"A", "B", "C", "D", "E", "F", "G", "H", "I", "J", "K", "L", "M",
      "N", "O", "P", "Q", "R", "S", "T", "U", "V", "W", "X", "Y", "Z">>

LowerCase ==
    <<"a", "b", "c", "d", "e", "f", "g", "h", "i", "j", "k", "l", "m",
      "n", "o", "p", "q", "r", "s", "t", "u", "v", "w", "x", "y", "z">>

Range(f) == {f[i] : i \in DOMAIN f}

UpperLetters == Range(UpperCase)

ToLower == [c \in UpperLetters |->
               LowerCase[CHOOSE i \in DOMAIN UpperCase : UpperCase[i] = c]]

LowerChar(c) == IF c \in UpperLetters THEN ToLower[c] ELSE c

\* str.lower()
Lower(s) == [i \in 1..Len(s) |-> LowerChar(s[i])]

Digits == {"0", "1", "2", "3", "4", "5", "6", "7", "8", "9"}

Letters == UpperLetters \cup Range(LowerCase)

\* the class \s of re, and what str.strip() and str.split() take off
Whitespace == {" ", "\t", "\n", "\r", "\f"}

\* s[i:] and s[i:j] of Python, with TLA+ positions: from position i on, and
\* from position i up to and not including position j
From(s, i) == SubSeq(s, i, Len(s))

Slice(s, i, j) == SubSeq(s, i, j - 1)

\* the text lit stands in s at position i; with re.IGNORECASE, whatever the
\* case of the letters
At(s, i, lit) ==
    /\ i + Len(lit) - 1 <= Len(s)
    /\ SubSeq(s, i, i + Len(lit) - 1) = lit

AtIgnoreCase(s, i, lit) ==
    /\ i + Len(lit) - 1 <= Len(s)
    /\ LowerChar(s[i]) = LowerChar(lit[1])
    /\ Lower(SubSeq(s, i, i + Len(lit) - 1)) = Lower(lit)

\* the first position from i on at which P holds (P a set of positions),
\* or 0
First(P) == IF P = {} THEN 0 ELSE CHOOSE i \in P : \A j \in P : i <= j

\* the position that follows the run of characters of class which starts at
\* position i
RunEnd(s, i, class) ==
    LET stop == First({j \in i..Len(s) : s[j] \notin class})
    IN  IF i > Len(s) THEN i ELSE IF stop = 0 THEN Len(s) + 1 ELSE stop

SkipWhitespace(s, i) == RunEnd(s, i, Whitespace)

\* the first position from i on that holds a character of class, or the
\* position after the end of s
Find(s, i, class) ==
    LET hit == First({j \in i..Len(s) : s[j] \in class})
    IN  IF i > Len(s) THEN i ELSE IF hit = 0 THEN Len(s) + 1 ELSE hit

\* the position where the run of whitespace that ends s at position j
\* starts
RECURSIVE TrailingWhitespace(_, _)
TrailingWhitespace(s, j) ==
    IF j = 0 \/ s[j] \notin Whitespace THEN j + 1 ELSE TrailingWhitespace(s, j - 1)

\* str.strip()
Strip(s) == Slice(s, SkipWhitespace(s, 1), TrailingWhitespace(s, Len(s)))

\* lit in s
Contains(s, lit) == \E i \in 1..Len(s) : At(s, i, lit)

-----------------------------------------------------------------------------
(* _clean_text, lines 104-109 *)

\* [ \t]
Blanks == {" ", "\t"}

\* what re.sub leaves of a text: marked gives, position by position, the
\* character that stands there after the substitution, or "" when the
\* substitution took the position out
Kept(marked) == SelectSeq(marked, LAMBDA c : c # "")

\* a position lies in one of the spans <<start, end>>, end not included
Within(spans, i) == \E m \in spans : m[1] <= i /\ i < m[2]

\* line 105, re.sub(r'[ \t]+', ' ', text): each run of spaces and tabs
\* becomes one space
SubBlanks(s) ==
    Kept([i \in 1..Len(s) |->
             IF s[i] \notin Blanks THEN s[i]
             ELSE IF i > 1 /\ s[i - 1] \in Blanks THEN ""
             ELSE " "])

\* what stands before and after the digits of r'--- Page \d+ ---'
PageMarkerLead == <<"-", "-", "-", " ", "P", "a", "g", "e", " ">>

PageMarkerTail == <<" ", "-", "-", "-">>

\* r'--- Page \d+ ---' at position i: the position after the match, or 0.
\* The digits are followed by a space, so \d+ takes the whole run of digits.
PageMarkerEnd(s, i) ==
    LET d == i + Len(PageMarkerLead)
        e == RunEnd(s, d, Digits)
    IN  IF At(s, i, PageMarkerLead) /\ e > d /\ At(s, e, PageMarkerTail)
          THEN e + Len(PageMarkerTail) ELSE 0

\* the spans of the matches of r'--- Page \d+ ---' from position i on, as
\* re.sub finds them: the search goes on where the match before ended
RECURSIVE PageMarkers(_, _)
PageMarkers(s, i) ==
    LET b == First({j \in i..Len(s) : PageMarkerEnd(s, j) > 0})
        e == PageMarkerEnd(s, b)
    IN  IF b = 0 THEN {} ELSE {<<b, e>>} \cup PageMarkers(s, e)

\* line 106, re.sub(r'--- Page \d+ ---', '', text)
SubPageMarkers(s) ==
    LET spans == PageMarkers(s, 1)
    IN  Kept([i \in 1..Len(s) |-> IF Within(spans, i) THEN "" ELSE s[i]])

\* line 107, the four str.replace calls
ReplaceTypographic(s) ==
    [i \in 1..Len(s) |->
        CASE s[i] = EnDash -> "-"
          [] s[i] = RightQuote -> "'"
          [] s[i] \in {LeftDoubleQuote, RightDoubleQuote} -> "\""
          [] OTHER -> s[i]]

\* r'\n\s*\n' at position i: the position after the match, or 0.  \s* is
\* greedy and gives back until a newline follows: the match ends with the
\* last newline of the run of whitespace that follows position i.
BlankLinesEnd(s, i) ==
    LET e == SkipWhitespace(s, i + 1)
        nl == CHOOSE j \in i + 1..e - 1 :
                  s[j] = NL /\ \A k \in j + 1..e - 1 : s[k] # NL
    IN  IF s[i] = NL /\ \E j \in i + 1..e - 1 : s[j] = NL THEN nl + 1 ELSE 0

\* the spans of the matches of r'\n\s*\n' from position i on
RECURSIVE BlankLines(_, _)
BlankLines(s, i) ==
    LET b == First({j \in i..Len(s) : BlankLinesEnd(s, j) > 0})
        e == BlankLinesEnd(s, b)
    IN  IF b = 0 THEN {} ELSE {<<b, e>>} \cup BlankLines(s, e)

\* line 108, re.sub(r'\n\s*\n', '\n\n', text): a match has two characters
\* or more, and two newlines take the place of its first two
SubBlankLines(s) ==
    LET spans == BlankLines(s, 1)
    IN  Kept([i \in 1..Len(s) |->
                 IF \E m \in spans : m[1] <= i /\ i <= m[1] + 1 THEN NL
                 ELSE IF Within(spans, i) THEN ""
                 ELSE s[i]])

CleanText(text) ==
    Strip(SubBlankLines(ReplaceTypographic(SubPageMarkers(SubBlanks(text)))))

ActiveHeader ==
    <<"A", "c", "t", "i", "v", "e", " ", "I", "n", "g", "r", "e", "d", "i",
      "e", "n", "t", "s", ":">>

InactiveHeader ==
    <<"I", "n", "a", "c", "t", "i", "v", "e", " ", "I", "n", "g", "r", "e",
      "d", "i", "e", "n", "t", "s", ":">>

FormulationHeader ==
    <<"F", "O", "R", "M", "U", "L", "A", "T", "I", "O", "N", ":">>

TotalWeight ==
    <<"T", "o", "t", "a", "l", " ", "w", "e", "i", "g", "h", "t", ":">>

CertificateOfAnalysis ==
    <<"C", "E", "R", "T", "I", "F", "I", "C", "A", "T", "E", " ", "O", "F",
      " ", "A", "N", "A", "L", "Y", "S", "I", "S">>

-----------------------------------------------------------------------------
(* _clean_ingredient_name, lines 183-186 *)

\* r'\s*\([^)]*\)' at position i: the position after the match, or 0
ParentheticalEnd(s, i) ==
    LET open == SkipWhitespace(s, i)
        close == Find(s, open + 1, {")"})
    IN  IF open <= Len(s) /\ s[open] = "(" /\ close <= Len(s)
          THEN close + 1 ELSE 0

\* the spans of the matches of r'\s*\([^)]*\)' from position i on
RECURSIVE Parentheticals(_, _)
Parentheticals(s, i) ==
    LET b == First({j \in i..Len(s) : ParentheticalEnd(s, j) > 0})
        e == ParentheticalEnd(s, b)
    IN  IF b = 0 THEN {} ELSE {<<b, e>>} \cup Parentheticals(s, e)

\* line 184, re.sub(r'\s*\([^)]*\)', '', name)
SubParentheticals(s) ==
    LET spans == Parentheticals(s, 1)
    IN  Kept([i \in 1..Len(s) |-> IF Within(spans, i) THEN "" ELSE s[i]])

\* str.split(): the runs of characters that are not whitespace
RECURSIVE Split(_)
Split(s) ==
    LET b == SkipWhitespace(s, 1)
        e == Find(s, b, Whitespace)
    IN  IF b > Len(s) THEN <<>>
        ELSE <<Slice(s, b, e)>> \o Split(From(s, e))

\* ' '.join(tokens)
RECURSIVE Join(_)
Join(tokens) ==
    IF tokens = <<>> THEN <<>>
    ELSE IF Len(tokens) = 1 THEN tokens[1]
    ELSE tokens[1] \o <<" ">> \o Join(Tail(tokens))

CleanIngredientName(name) == Join(Split(Strip(SubParentheticals(name))))

-----------------------------------------------------------------------------
(* _parse_table_section, lines 148-181 *)

\* an ingredient has no amount
None == <<"None">>

\* line 151
ignore_phrases ==
    { <<"e", "a", "c", "h", " ", "t", "a", "b", "l", "e", "t", " ",
        "c", "o", "n", "t", "a", "i", "n", "s">>,
      <<"s", "o", "u", "r", "c", "e", " ",
        "i", "n", "g", "r", "e", "d", "i", "e", "n", "t">>,
      <<"m", "g", "/", "t", "a", "b", "l", "e", "t">>,
      <<"%", " ", "b", "y", " ", "w", "e", "i", "g", "h", "t">>,
      <<"i", "n", "g", "r", "e", "d", "i", "e", "n", "t">>,
      <<"a", "m", "o", "u", "n", "t">> }

\* section.split('\n')
RECURSIVE SplitLines(_)
SplitLines(s) ==
    LET nl == Find(s, 1, {NL})
    IN  IF nl > Len(s) THEN <<s>>
        ELSE <<Slice(s, 1, nl)>> \o SplitLines(From(s, nl + 1))

\* line 152: the lines of the section, stripped, the empty ones left out
RECURSIVE StrippedLines(_)
StrippedLines(ls) ==
    IF ls = <<>> THEN <<>>
    ELSE IF Strip(ls[1]) = <<>> THEN StrippedLines(Tail(ls))
    ELSE <<Strip(ls[1])>> \o StrippedLines(Tail(ls))

\* the digits of s from position i on are all of s[i..j-1]
AllDigits(s, i, j) == \A k \in i..j - 1 : s[k] \in Digits

\* (?:,\d{3})* : the positions reached from the positions ends by any number
\* of groups of a comma and three digits
RECURSIVE CommaGroups(_, _)
CommaGroups(s, ends) ==
    LET more == {e + 4 : e \in {e \in ends : /\ e + 3 <= Len(s)
                                              /\ s[e] = ","
                                              /\ AllDigits(s, e + 1, e + 4)}}
    IN  IF more \subseteq ends THEN ends ELSE CommaGroups(s, ends \cup more)

\* r'\d{1,4}(?:,\d{3})*(?:\.\d+)?' at position i: the positions that may
\* follow the number
NumberEnds(s, i) ==
    LET whole == {j \in i + 1..i + 4 : j <= Len(s) + 1 /\ AllDigits(s, i, j)}
        grouped == CommaGroups(s, whole)
        decimal == {j \in 1..Len(s) + 1 :
                      \E e \in grouped : /\ e <= Len(s) /\ s[e] = "."
                                         /\ j > e + 1 /\ AllDigits(s, e + 1, j)}
    IN  grouped \cup decimal

\* line 166, re.search(r'\s+(\d{1,4}(?:,\d{3})*(?:\.\d+)?)\s+', line): the
\* position where the first match starts, or 0
AmountColumn(line) ==
    First({i \in 1..Len(line) :
             /\ line[i] \in Whitespace
             /\ \E e \in NumberEnds(line, SkipWhitespace(line, i)) :
                    e <= Len(line) /\ line[e] \in Whitespace})

\* line 54, the units of amount_patterns in the order of the alternation;
\* 'units?' takes the s when it is there
Units ==
    << <<"m", "g">>, <<"g">>, <<"m", "c", "g">>, <<"u03bc", "g">>,
       <<"u00b5", "g">>, <<"I", "U">>, <<"%">>, <<"p", "p", "m">>,
       <<"u", "n", "i", "t", "s">>, <<"u", "n", "i", "t">> >>

\* r'(\d+(?:\.\d+)?)\s*(mg|g|...)' at position i, with re.IGNORECASE: the
\* two groups, or None.  \d+ and \s* take their whole runs: a unit starts
\* with neither a digit nor whitespace.
AmountAt(s, i) ==
    LET whole == RunEnd(s, i, Digits)
        frac == IF whole < Len(s) /\ s[whole] = "." /\ s[whole + 1] \in Digits
                  THEN RunEnd(s, whole + 1, Digits) ELSE whole
        u == SkipWhitespace(s, frac)
        unit == First({k \in DOMAIN Units : AtIgnoreCase(s, u, Units[k])})
    IN  IF i <= Len(s) /\ s[i] \in Digits /\ unit > 0
          THEN Slice(s, i, frac) \o <<" ">> \o Slice(s, u, u + Len(Units[unit]))
          ELSE None

\* lines 171-175: the amount of the first match in amount_part
Amount(amount_part) ==
    LET i == First({i \in 1..Len(amount_part) : AmountAt(amount_part, i) # None})
    IN  IF i = 0 THEN None ELSE AmountAt(amount_part, i)

\* lines 162-179: the ingredient of one line, or none
ParseLine(line, ingredient_type) ==
    LET m == AmountColumn(line)
        name == IF m > 0 THEN Strip(Slice(line, 1, m)) ELSE line
        amount == IF m > 0 THEN Amount(Strip(From(line, m))) ELSE None
        cleaned_name == CleanIngredientName(name)
    IN  IF \E phrase \in ignore_phrases : Contains(Lower(line), phrase) THEN <<>>
        ELSE IF Len(cleaned_name) > 2
          THEN <<[name |-> cleaned_name, amount |-> amount,
                  type |-> ingredient_type]>>
        ELSE <<>>

\* lines 154-180: the loop over the lines, from line i on; a line that
\* ends with '(' is joined with the line after it
RECURSIVE ParseLines(_, _, _)
ParseLines(lines, i, ingredient_type) ==
    IF i > Len(lines) THEN <<>>
    ELSE IF lines[i][Len(lines[i])] = "(" /\ i + 1 <= Len(lines)
      THEN ParseLine(lines[i] \o <<" ">> \o lines[i + 1], ingredient_type)
              \o ParseLines(lines, i + 2, ingredient_type)
    ELSE ParseLine(lines[i], ingredient_type)
              \o ParseLines(lines, i + 1, ingredient_type)

ParseTableSection(section, ingredient_type) ==
    ParseLines(StrippedLines(SplitLines(section)), 1, ingredient_type)

-----------------------------------------------------------------------------
(* _extract_from_section, lines 137-146, and the patterns of lines 48-49 *)

\* line 48: what the medicinal section starts with and what it ends before
spec_sheet_medicinal_patterns ==
    [header |-> ActiveHeader,
     stops |-> {InactiveHeader, FormulationHeader, TotalWeight}]

\* line 49
spec_sheet_non_medicinal_patterns ==
    [header |-> InactiveHeader, stops |-> {TotalWeight}]

\* '$' without re.MULTILINE: the end of the text, or the newline that ends it
AtEnd(s, i) == i = Len(s) + 1 \/ (i = Len(s) /\ s[i] = NL)

\* '(.*?)(?=stop|...|$)' from position i, with re.DOTALL: the first position
\* from i on where a stop stands or the text ends
SectionEnd(s, i, stops) ==
    First({j \in i..Len(s) + 1 :
             AtEnd(s, j) \/ \E stop \in stops : AtIgnoreCase(s, j, stop)})

\* lines 140-144, re.finditer from position pos on: the first match whose
\* section has more than 5 characters is parsed; the search for the next
\* match goes on where the match before ended
RECURSIVE ExtractFrom(_, _, _, _)
ExtractFrom(text, pos, pattern, ing_type) ==
    LET start == First({i \in pos..Len(text) :
                          AtIgnoreCase(text, i, pattern.header)})
        b == start + Len(pattern.header)
        e == SectionEnd(text, b, pattern.stops)
        section == Slice(text, b, e)
    IN  IF start = 0 THEN <<>>
        ELSE IF Len(Strip(section)) > 5
          THEN ParseTableSection(Strip(section), ing_type)
        ELSE ExtractFrom(text, e, pattern, ing_type)

ExtractFromSection(text, pattern, ing_type) ==
    ExtractFrom(text, 1, pattern, ing_type)

-----------------------------------------------------------------------------
(* the title patterns of lines 50-53, searched with re.MULTILINE and       *)
(* re.IGNORECASE (line 122)                                                 *)

\* [A-Za-z0-9\s-]
TitleClass1 == Letters \cup Digits \cup Whitespace \cup {"-"}

\* [A-Z0-9,\'()\s-], the letters of either case under re.IGNORECASE
TitleClass2 == Letters \cup Digits \cup Whitespace \cup {",", "'", "(", ")", "-"}

\* r'CERTIFICATE OF ANALYSIS\s*([A-Za-z0-9\s-]+)' at position i: where
\* group 1 starts, or 0.  \s* takes the whitespace after the words; when no
\* character of the class follows it, it gives one whitespace back to the
\* group.
Title1GroupStart(s, i) ==
    LET b == i + Len(CertificateOfAnalysis)
        w == SkipWhitespace(s, b)
    IN  IF ~AtIgnoreCase(s, i, CertificateOfAnalysis) THEN 0
        ELSE IF w <= Len(s) /\ s[w] \in TitleClass1 THEN w
        ELSE IF w > b THEN w - 1
        ELSE 0

\* group 1 of the first match of the first title pattern, or None
Title1(text) ==
    LET i == First({i \in 1..Len(text) : Title1GroupStart(text, i) > 0})
        g == Title1GroupStart(text, i)
    IN  IF i = 0 THEN None ELSE Slice(text, g, RunEnd(text, g, TitleClass1))

\* r'^([A-Z0-9,\'()\s-]+(?: - [A-Za-z]+)?)': group 1 of the first match,
\* or None.  '^' is the start of any line; the run of the class goes over
\* line ends, and nothing of ' - word' is left after it.
Title2(text) ==
    LET i == First({i \in 1..Len(text) :
                      /\ i = 1 \/ text[i - 1] = NL
                      /\ text[i] \in TitleClass2})
    IN  IF i = 0 THEN None ELSE Slice(text, i, RunEnd(text, i, TitleClass2))

monograph_title_patterns == <<"title1", "title2">>

TitleMatch(pattern, text) ==
    IF pattern = "title1" THEN Title1(text) ELSE Title2(text)

\* lines 122-127: the ingredients the pattern adds: the cleaned title, when
\* the pattern matches and the name is kept
TitleIngredients(pattern, text) ==
    LET group == TitleMatch(pattern, text)
        name == CleanIngredientName(group)
    IN  IF /\ group # None
           /\ Len(name) > 2
           /\ ~Contains(Lower(name), Lower(CertificateOfAnalysis))
          THEN <<[name |-> name, type |-> "medicinal"]>>
        ELSE <<>>

-----------------------------------------------------------------------------
(* _remove_duplicates, lines 188-195 *)

\* line 191
NameKeyMutExact(ingredient) == ingredient.name

NameKey(ingredient) == Strip(Lower(ingredient.name))

\* lines 190-194: the loop from entry i on, seen_names the keys met so far
RECURSIVE Unique(_, _, _)
Unique(entries, i, seen_names) ==
    IF i > Len(entries) THEN <<>>
    ELSE LET name_lower == NameKey(entries[i])
         IN  IF name_lower # <<>> /\ name_lower \notin seen_names
               THEN <<entries[i]>>
                       \o Unique(entries, i + 1, seen_names \cup {name_lower})
             ELSE Unique(entries, i + 1, seen_names)

RemoveDuplicates(entries) == Unique(entries, 1, {})

-----------------------------------------------------------------------------
(* extract_ingredients, lines 111-135, as one function *)

ExtractIngredients(text) ==
    LET m == ExtractFromSection(text, spec_sheet_medicinal_patterns, "medicinal")
        n == ExtractFromSection(text, spec_sheet_non_medicinal_patterns, "non_medicinal")
        t1 == TitleIngredients("title1", text)
        t2 == TitleIngredients("title2", text)
    IN  RemoveDuplicates(
            IF m # <<>> \/ n # <<>> THEN m \o n
            ELSE IF t1 # <<>> THEN t1 ELSE t2)

-----------------------------------------------------------------------------
(* The texts and lists the extraction is run on *)

\* Number of lines of the text that the OCR of a document gives.
MaxLines == 4

\* Number of times _clean_text is applied to a text.
MaxCleans == 2

\* Number of entries of a list given to _remove_duplicates directly.
MaxList == 3

ZincLine ==
    <<"Z", "i", "n", "c", " ", " ", " ", "2", "0", " ", "m", "g">>

GelatinLine == <<"G", "e", "l", "a", "t", "i", "n">>

ProseLine ==
    <<"D", "o", " ", "n", "o", "t", " ", "u", "s", "e", " ", "i", "f", " ",
      "t", "h", "e", " ", "s", "e", "a", "l", " ", "i", "s", " ", "b", "r",
      "o", "k", "e", "n", ".">>

FooterLine ==
    <<"R", "e", "v", " ", "2", " ", "-", "-", "-", " ", "P", "a", "g", "e",
      " ", "1", " ", "-", "-", "-", " ", "L", "o", "t", " ", "7">>

\* the lines of a specification sheet, of a monograph, of a leaflet
DocumentLines ==
    {ActiveHeader, InactiveHeader, ZincLine, GelatinLine, ProseLine,
     CertificateOfAnalysis}

\* the lines of a scan: content, the footer of a page, empty lines
ScanLines == {ZincLine, GelatinLine, FooterLine, <<>>}

\* the lines one after the other, a newline after each
RECURSIVE Lines(_)
Lines(ls) == IF ls = <<>> THEN <<>> ELSE ls[1] \o <<NL>> \o Lines(Tail(ls))

\* line 98: full_text is a newline and the text of the page
FullTexts ==
    UNION {{<<NL>> \o Lines(ls) : ls \in [1..n -> DocumentLines] \cup [1..n -> ScanLines]} :
             n \in 1..MaxLines}

Zinc == <<"Z", "i", "n", "c">>

ListEntries ==
    { [name |-> Zinc, amount |-> <<"2", "0", " ", "m", "g">>, type |-> "medicinal"],
      [name |-> <<"Z", "I", "N", "C">>, amount |-> None, type |-> "non_medicinal"],
      [name |-> <<" ", "z", "i", "n", "c", " ">>, amount |-> <<"5", " ", "m", "g">>,
       type |-> "medicinal"],
      [name |-> GelatinLine, amount |-> None, type |-> "non_medicinal"],
      [name |-> GelatinLine, type |-> "medicinal"] }

IngredientLists == UNION {[1..n -> ListEntries] : n \in 0..MaxList}

-----------------------------------------------------------------------------
(* extract_text (line 99) and extract_ingredients (lines 111-135), step by *)
(* step; _remove_duplicates is also run on lists of its own                *)

\* line 116: where extract_ingredients goes on after the two sections
AfterSectionsMutTitles(m, n) == "titles"

AfterSections(m, n) == IF m # <<>> \/ n # <<>> THEN "extend" ELSE "titles"

\* A text that the OCR of a document gave, or a list for _remove_duplicates;
\* no thread uses the RAGProcessor.
InitPdf ==
    /\ gemini_model = FALSE
    /\ file = FileAbsent
    /\ cache = file.data
    /\ collExists = TRUE
    /\ collDocs = 0
    /\ pc = [t \in Threads |-> "idle"]
    /\ call = [t \in Threads |-> [op |-> "none"]]
    /\ found = [t \in Threads |-> 0]
    /\ resp = [t \in Threads |-> NoResp]
    /\ result = [t \in Threads |-> NoResult]
    /\ ret = [t \in Threads |-> RetNone]
    /\ aliased = {}
    /\ qfail = {}
    /\ stale = {}
    /\ ops = 0
    /\ cleaned = 0
    /\ title_pattern = 1
    /\ medicinal = <<>>
    /\ non_medicinal = <<>>
    /\ unique_ingredients = <<>>
    /\ evaluated = {}
    /\ \/ stage = "text" /\ product_text \in FullTexts /\ ingredients = <<>>
       \/ /\ stage = "ingredients"
          /\ product_text = <<>>
          /\ ingredients \in IngredientLists

\* line 99, and _clean_text applied again to what it returned
CleanTextCall ==
    /\ stage = "text"
    /\ cleaned < MaxCleans
    /\ Strip(product_text) # <<>>
    /\ product_text' = CleanText(product_text)
    /\ cleaned' = cleaned + 1
    /\ UNCHANGED <<stage, title_pattern, medicinal, non_medicinal, ingredients,
                   unique_ingredients, evaluated, ragvars>>

\* lines 112-116, on the text extract_text returned (line 99, app.py:110-114)
ExtractSections ==
    /\ stage = "text"
    /\ cleaned = 1
    /\ medicinal' = ExtractFromSection(product_text, spec_sheet_medicinal_patterns, "medicinal")
    /\ non_medicinal' = ExtractFromSection(product_text, spec_sheet_non_medicinal_patterns,
                                           "non_medicinal")
    /\ evaluated' = {"formulation"}
    /\ stage' = AfterSections(medicinal', non_medicinal')
    /\ UNCHANGED <<product_text, cleaned, title_pattern, ingredients, unique_ingredients, ragvars>>

\* lines 117-118
ExtendIngredients ==
    /\ stage = "extend"
    /\ ingredients' = medicinal \o non_medicinal
    /\ stage' = "ingredients"
    /\ UNCHANGED <<product_text, cleaned, title_pattern, medicinal, non_medicinal,
                   unique_ingredients, evaluated, ragvars>>

\* lines 120-128: one turn of the loop over the title patterns
SearchTitle ==
    /\ stage = "titles"
    /\ LET name == monograph_title_patterns[title_pattern]
           title == TitleIngredients(name, product_text)
       IN  /\ evaluated' = evaluated \cup {name}
           /\ ingredients' = title
           /\ IF title = <<>> /\ title_pattern < Len(monograph_title_patterns)
                THEN title_pattern' = title_pattern + 1 /\ UNCHANGED stage
                ELSE stage' = "ingredients" /\ UNCHANGED title_pattern
    /\ UNCHANGED <<product_text, cleaned, medicinal, non_medicinal,
                   unique_ingredients, ragvars>>

\* lines 130-132
ReturnUnique ==
    /\ stage = "ingredients"
    /\ unique_ingredients' = RemoveDuplicates(ingredients)
    /\ stage' = "done"
    /\ UNCHANGED <<product_text, cleaned, title_pattern, medicinal, non_medicinal,
                   ingredients, evaluated, ragvars>>

PdfNext ==
    \/ CleanTextCall
    \/ ExtractSections
    \/ ExtendIngredients
    \/ SearchTitle
    \/ ReturnUnique

SpecPdf == InitPdf /\ [][PdfNext]_vars

-----------------------------------------------------------------------------
(* The extraction, as seen from its states *)

\* extract_ingredients has returned for the text product_text.
Extracted == stage = "done" /\ evaluated # {}

\* The strategies of extract_ingredients, in the order it tries them: the
\* two sections of a formulation, then each title pattern.
Strategies == <<"formulation">> \o monograph_title_patterns

\* What a strategy gives for a text, taken by itself.
StrategyOutput(strategy, doc) ==
    IF strategy = "formulation"
      THEN ExtractFromSection(doc, spec_sheet_medicinal_patterns, "medicinal")
             \o ExtractFromSection(doc, spec_sheet_non_medicinal_patterns,
                                   "non_medicinal")
    ELSE TitleIngredients(strategy, doc)

\* The place in the order of the first strategy that gives something for
\* the text, or 0.
FirstNonEmpty(doc) ==
    First({k \in DOMAIN Strategies : StrategyOutput(Strategies[k], doc) # <<>>})

(* C12 *)
\* C12: extract_ingredients evaluates its strategies in their order and
\* stops at the first one that gives a non-empty list: what it returns is
\* that strategy's output without duplicates, no strategy after it has been
\* evaluated, and when every strategy gives nothing it returns the empty
\* list.
C12_CascadeCommitsToFirst ==
    Extracted =>
        LET k == FirstNonEmpty(product_text)
        IN  IF k = 0
              THEN /\ unique_ingredients = <<>>
                   /\ evaluated = Range(Strategies)
            ELSE /\ unique_ingredients =
                        RemoveDuplicates(StrategyOutput(Strategies[k], product_text))
                 /\ evaluated = {Strategies[j] : j \in 1..k}

\* A formulation gave the result, and a title pattern that would have
\* given a name for the same text has not been tried.
C12_Witness ==
    /\ Extracted
    /\ unique_ingredients # <<>>
    /\ evaluated = {"formulation"}
    /\ TitleIngredients("title2", product_text) # <<>>

(* C13 *)
\* The lines of a text, stripped, the empty ones left out.
TextLines(doc) == StrippedLines(SplitLines(doc))

\* A line is the label of a sub-section.
IsHeader(line, header) == Lower(line) = Lower(header)

\* The lines of the sub-section of a text that a header opens: the lines
\* after a line that is the header, up to the next label of a sub-section.
SectionLines(doc, header) ==
    LET ls == TextLines(doc)
        Label(k) == IsHeader(ls[k], ActiveHeader) \/ IsHeader(ls[k], InactiveHeader)
        InSection(k) == /\ ~Label(k)
                        /\ \E h \in 1..k - 1 :
                              /\ IsHeader(ls[h], header)
                              /\ \A j \in h + 1..k - 1 : ~Label(j)
    IN  {ls[k] : k \in {n \in DOMAIN ls : InSection(n)}}

\* The names of the ingredients on the lines of a sub-section.
SectionNames(doc, header) ==
    {ParseLine(line, "")[1].name :
        line \in {l \in SectionLines(doc, header) : ParseLine(l, "") # <<>>}}

\* extract_ingredients has returned what the formulation strategy gave.
FromFormulation == Extracted /\ evaluated = {"formulation"} /\ unique_ingredients # <<>>

\* C13: in a result of the formulation strategy, an ingredient typed
\* medicinal is on a line of the "Active Ingredients:" sub-section and an
\* ingredient typed non_medicinal is on a line of the "Inactive
\* Ingredients:" sub-section, however the two sub-sections are arranged; a
\* line of the inactive sub-section alone is never typed medicinal.
C13_SectionsTyped ==
    FromFormulation =>
        \A i \in DOMAIN unique_ingredients :
            LET ing == unique_ingredients[i]
            IN  /\ ing.type = "medicinal"
                      => ing.name \in SectionNames(product_text, ActiveHeader)
                /\ ing.type = "non_medicinal"
                      => ing.name \in SectionNames(product_text, InactiveHeader)

(* C14 *)
\* The labels of sections and the title phrase that the patterns of
\* extract_ingredients name.
Keywords ==
    {ActiveHeader, InactiveHeader, FormulationHeader, TotalWeight,
     CertificateOfAnalysis}

\* A text holds one of them, in whatever case.
HasKeyword(doc) ==
    \E word \in Keywords : \E i \in 1..Len(doc) : AtIgnoreCase(doc, i, word)

\* C14: for a text with no label of a section and no title phrase, such as
\* ordinary prose, extract_ingredients returns the empty list.
C14_NoKeywordGivesNothing ==
    Extracted /\ ~HasKeyword(product_text) => unique_ingredients = <<>>

(* C15 *)
\* C15: every name in a list that extract_ingredients returns has at most 7
\* tokens separated by whitespace and at least 3 characters.
C15_NamesBounded ==
    Extracted =>
        \A i \in DOMAIN unique_ingredients :
            /\ Len(Split(unique_ingredients[i].name)) <= 7
            /\ Len(unique_ingredients[i].name) >= 3

(* C16 *)
\* _remove_duplicates has returned unique_ingredients for the list
\* ingredients: a list of its own, or the list of extract_ingredients.
Deduplicated == stage = "done"

\* Two entries have the same name once lower-cased and trimmed.
SameName(a, b) == Strip(Lower(a.name)) = Strip(Lower(b.name))

\* The places of a list where a name occurs for the first time.
FirstOccurrences(entries) ==
    {i \in DOMAIN entries : \A j \in 1..i - 1 : ~SameName(entries[j], entries[i])}

\* The k-th of them, in the order of the list.
Occurrence(entries, k) ==
    CHOOSE i \in FirstOccurrences(entries) :
        Cardinality({j \in FirstOccurrences(entries) : j <= i}) = k

\* C16: what _remove_duplicates returns has no two entries with the same
\* name once lower-cased and trimmed; it is the input with entries left
\* out, in the order of the input; and it holds, for each name of the
\* input, the whole record of the first entry with that name.  This holds
\* for the lists given to it directly and for the list that
\* extract_ingredients returns.
C16_Deduplicated ==
    Deduplicated =>
        /\ \A i, j \in DOMAIN unique_ingredients :
              i # j => ~SameName(unique_ingredients[i], unique_ingredients[j])
        /\ Len(unique_ingredients) = Cardinality(FirstOccurrences(ingredients))
        /\ \A k \in DOMAIN unique_ingredients :
              unique_ingredients[k] = ingredients[Occurrence(ingredients, k)]

\* A list held two entries whose names differ in case or in the spaces
\* around them only, and the second one was left out.
C16_Witness ==
    /\ Deduplicated
    /\ Len(unique_ingredients) < Len(ingredients)
    /\ \E i, j \in DOMAIN ingredients :
          /\ i < j
          /\ ingredients[i].name # ingredients[j].name
          /\ SameName(ingredients[i], ingredients[j])
    /\ \E k \in DOMAIN ingredients : ~SameName(ingredients[k], ingredients[1])

(* C17 *)
\* C17: _clean_text is idempotent: applied to a text that it returned, it
\* returns that text unchanged.
C17_CleanTextIdempotent ==
    [][cleaned >= 1 /\ cleaned' = cleaned + 1 => product_text' = product_text]_vars

-----------------------------------------------------------------------------
(* C18 *)

\* C18: a classification of an ingredient whose type is neither medicinal
\* nor non_medicinal returns, with or without a language model, a result
\* that is not empty and has a field named classification.
C18_UnknownTypeHasClassification ==
    \A t \in Threads :
        (pc[t] = "idle" /\ call[t].op = "classify" /\ call[t].type = "unknown")
            => /\ ret[t].kind = "value"
               /\ DOMAIN ret[t].val # {}
               /\ "classification" \in DOMAIN ret[t].val

-----------------------------------------------------------------------------
(* C19 *)

\* Thread t has missed the cache, has had its answer from the language
\* model and has stored it; it is writing the file.
HasStored(t) ==
    /\ call[t].op = "classify"
    /\ pc[t] \in {"save_open", "save_dump"}

\* C19: nothing keeps two classifications of one name apart: a call that
\* missed the cache stores its verdict whatever entry another call has put
\* there meanwhile, so the verdict left in the cache is the one of the call
\* that stores last.
C19_LastWriteWins ==
    [][\A t \in Threads :
          (pc[t] = "store" /\ pc'[t] # "store") =>
              /\ pc'[t] = "save_open"
              /\ cache'[call[t].name] = result[t]
              /\ \A u \in Threads \ {t} :
                    (HasStored(u) /\ call[u].name = call[t].name)
                        => u \notin aliased']_vars

\* Two concurrent classifications of one medicinal name both missed the
\* cache and both had their answer from the language model; both have
\* stored, and the cache holds the verdict of the second, which differs from
\* the verdict of the first.
C19_Witness ==
    \E t, u \in Threads :
        /\ t # u
        /\ HasStored(t) /\ HasStored(u)
        /\ call[t].name = call[u].name
        /\ call[t].type = "medicinal" /\ call[u].type = "medicinal"
        /\ Verdict(result[t]) # Verdict(result[u])
        /\ u \in aliased /\ t \notin aliased
        /\ cache[call[u].name] = result[u]

-----------------------------------------------------------------------------
(* C20 *)

\* Thread t's classification returns the fallback verdict in this step.
ReturnsFallback(t) ==
    /\ call[t].op = "classify"
    /\ Returns(t)
    /\ ret'[t].kind = "value"
    /\ ret'[t].val.classification_text = "Class 3 (Fallback)"

\* C20: a classification that returns the fallback verdict has written
\* nothing: it returns from its retrieval or from the parse of the answer,
\* before line 100, and its last step leaves the cache and the file as they
\* are.
C20_FallbackLeavesCache ==
    [][\A t \in Threads :
          ReturnsFallback(t) =>
              /\ pc[t] \in {"miss_search", "llm_parse"}
              /\ cache' = cache
              /\ file' = file]_vars

-----------------------------------------------------------------------------
(* C21 *)

\* No operation is in progress.
Quiescent == \A t \in Threads : pc[t] = "idle"

\* C21: when no call is in progress, the cache in memory is what the cache
\* file holds, entry for entry and field for field, monograph_found
\* included.
C21_CacheEqualsFile ==
    Quiescent => file.state # "partial" /\ file.data = cache

-----------------------------------------------------------------------------
(* C22 *)

\* C22: a classification that had missed the cache and had its verdict
\* ready when a reset returned does not put that verdict into the cache
\* afterwards.
C22_NoStoreAfterReset ==
    [][\A t \in Threads :
          (pc[t] = "store" /\ pc'[t] = "save_open") => t \notin stale]_vars

====
